---- MODULE Spec2Model ----
(***************************************************************************)
(* Model of the matching, scaling, substitution and recommendation core of *)
(* src/app.py.  Text is modelled as sequences of one-character strings so  *)
(* that lower(), strip(), the regular expressions and the substring tests  *)
(* of the source are computed, not assumed.  Quantities that the source    *)
(* holds in floats are modelled as exact rationals <<n, d>> (d > 0, lowest *)
(* terms); binary rounding of the float arithmetic is outside the model.   *)
(***************************************************************************)
EXTENDS Integers, Sequences, FiniteSets, TLC

\* call:    the operation last invoked, with its arguments
\* ret:     the value it returned
\* results: the sorted candidate list of the last match_recipes call, the
\*          sorted scored list of the last recommend_from_ratings call
\* ratings: the rows <<recipe_id, rating>> of the ratings table
VARIABLES call, ret, results, ratings

vars == <<call, ret, results, ratings>>

(***************************************************************************)
(* Bounds of the model.                                                    *)
(***************************************************************************)
MaxRecipes == 2
MaxServings == 4
MaxTopN == 2
MaxResultsBound == 2
\* how many of the four optional filters one match_recipes call sets
MaxFilters == 1
\* how many recipes the recommender is handed
MaxRecommendRecipes == 3
\* the largest rating handed to set_rating; the smallest is -1
MaxRatingArg == 6

\* Optional values (Python's None) are sets of at most one element
None == {}
Some(x) == {x}
Val(o) == CHOOSE x \in o : TRUE
\* dict.get(key, default) on a field that may be absent
Get(o, default) == IF o = None THEN default ELSE Val(o)

(***************************************************************************)
(* Characters and the str methods the source uses.                         *)
(***************************************************************************)
Min(S) == CHOOSE x \in S : \A y \in S : x <= y
Max(S) == CHOOSE x \in S : \A y \in S : x >= y

DigitChars == <<"0", "1", "2", "3", "4", "5", "6", "7", "8", "9">>
DigitSet == {DigitChars[i] : i \in 1..10}
IsDigit(c) == c \in DigitSet
DigitVal(c) == (CHOOSE i \in 1..10 : DigitChars[i] = c) - 1

UpperChars == <<"A", "B", "C", "D", "E", "F", "G", "H", "I", "J", "K", "L", "M",
                "N", "O", "P", "Q", "R", "S", "T", "U", "V", "W", "X", "Y", "Z">>
LowerChars == <<"a", "b", "c", "d", "e", "f", "g", "h", "i", "j", "k", "l", "m",
                "n", "o", "p", "q", "r", "s", "t", "u", "v", "w", "x", "y", "z">>
UpperSet == {UpperChars[i] : i \in 1..26}
LowerSet == {LowerChars[i] : i \in 1..26}
IsUpper(c) == c \in UpperSet
IsLower(c) == c \in LowerSet
IsSpace(c) == c = " "
\* \w of the re module: letters, digits and the underscore
IsWordChar(c) == IsDigit(c) \/ IsUpper(c) \/ IsLower(c) \/ c = "_"

LowerChar(c) == IF IsUpper(c) THEN LowerChars[CHOOSE i \in 1..26 : UpperChars[i] = c] ELSE c
lower(s) == [i \in 1..Len(s) |-> LowerChar(s[i])]

strip(s) ==
    LET keep == {i \in 1..Len(s) : ~IsSpace(s[i])}
    IN  IF keep = {} THEN <<>> ELSE SubSeq(s, Min(keep), Max(keep))

\* a TLA+ string as the sequence of its characters
Chars(str) == [i \in 1..Len(str) |-> SubSeq(str, i, i)]

\* the tail of s from position i on
From(s, i) == SubSeq(s, i, Len(s))

\* sub in s, the substring test of str.__contains__
Contains(s, sub) ==
    \E i \in 1..(Len(s) - Len(sub) + 1) : SubSeq(s, i, i + Len(sub) - 1) = sub

\* first position at or after i that is not a digit (Len(s)+1 when there is none)
DigitsEnd(s, i) == Min({j \in i..(Len(s) + 1) : j = Len(s) + 1 \/ ~IsDigit(s[j])})
\* first position at or after i that is not whitespace
SpacesEnd(s, i) == Min({j \in i..(Len(s) + 1) : j = Len(s) + 1 \/ ~IsSpace(s[j])})

RECURSIVE ParseNat(_)
ParseNat(s) ==
    IF s = <<>> THEN 0
    ELSE 10 * ParseNat(SubSeq(s, 1, Len(s) - 1)) + DigitVal(s[Len(s)])

RECURSIVE NatToStr(_)
NatToStr(n) ==
    IF n < 10 THEN <<DigitChars[n + 1]>>
    ELSE NatToStr(n \div 10) \o <<DigitChars[(n % 10) + 1]>>

RECURSIVE Pow10(_)
Pow10(k) == IF k = 0 THEN 1 ELSE 10 * Pow10(k - 1)

(***************************************************************************)
(* Exact rationals standing for the floats and Fractions of the source.    *)
(***************************************************************************)
RECURSIVE Gcd(_, _)
Gcd(a, b) == IF b = 0 THEN a ELSE Gcd(b, a % b)

Rat(n, d) == LET g == Gcd(n, d) IN IF g = 0 THEN <<0, 1>> ELSE <<n \div g, d \div g>>
RMul(x, y) == Rat(x[1] * y[1], x[2] * y[2])
RAdd(x, y) == Rat(x[1] * y[2] + y[1] * x[2], x[2] * y[2])
RLess(x, y) == x[1] * y[2] < y[1] * x[2]
RLeq(x, y) == x[1] * y[2] <= y[1] * x[2]
RAbsDiff(x, y) ==
    LET n == x[1] * y[2] - y[1] * x[2]
    IN  Rat(IF n < 0 THEN 0 - n ELSE n, x[2] * y[2])
RIsInt(x) == x[2] = 1

\* format(x, ".kf"): round half to even at k decimals, then print.  A tie is
\* decided as the float code decides it only when the float holds the value
\* exactly; on the lines and serving counts of this model (ScaleLists,
\* ServingsArgs) every result agrees with the source run on the same input.
FormatFixed(x, k) ==
    LET num == x[1] * Pow10(k)
        q == num \div x[2]
        r == num % x[2]
        rounded == IF 2 * r > x[2] THEN q + 1
                   ELSE IF 2 * r < x[2] THEN q
                   ELSE IF q % 2 = 0 THEN q ELSE q + 1
        ip == rounded \div Pow10(k)
        fp == rounded % Pow10(k)
        fs == NatToStr(fp)
        pad == [i \in 1..(k - Len(fs)) |-> "0"]
    IN  NatToStr(ip) \o <<".">> \o pad \o fs

\* Fraction.limit_denominator(max_denominator) of the standard library
RECURSIVE LimitLoop(_, _, _, _, _, _, _)
LimitLoop(p0, q0, p1, q1, n, d, maxd) ==
    LET a == n \div d
        q2 == q0 + a * q1
    IN  IF q2 > maxd THEN <<p0, q0, p1, q1>>
        ELSE LimitLoop(p1, q1, p0 + a * p1, q2, d, n - a * d, maxd)

limit_denominator(x, maxd) ==
    IF x[2] <= maxd THEN x
    ELSE LET st == LimitLoop(0, 1, 1, 0, x[1], x[2], maxd)
             k == (maxd - st[2]) \div st[4]
             bound1 == Rat(st[1] + k * st[3], st[2] + k * st[4])
             bound2 == Rat(st[3], st[4])
         IN  IF RLeq(RAbsDiff(bound2, x), RAbsDiff(bound1, x)) THEN bound2 ELSE bound1

\* str(Fraction): "n" when the denominator is 1, else "n/d"
FractionStr(x) ==
    IF x[2] = 1 THEN NatToStr(x[1]) ELSE NatToStr(x[1]) \o <<"/">> \o NatToStr(x[2])

(***************************************************************************)
(* Ingredient scaling.                                                     *)
(***************************************************************************)
\* re.match(r"^(\d+)\s+(\d+/\d+)\b(.*)$", s): positions of the groups, or <<>>
MixedMatch(s) ==
    LET e1 == DigitsEnd(s, 1)
        e2 == SpacesEnd(s, e1)
        e3 == DigitsEnd(s, e2)
        e4 == DigitsEnd(s, e3 + 1)
    IN  IF /\ e1 > 1
           /\ e2 > e1
           /\ e3 > e2
           /\ e3 <= Len(s)
           /\ s[e3] = "/"
           /\ e4 > e3 + 1
           /\ (e4 > Len(s) \/ ~IsWordChar(s[e4]))
        THEN <<e1, e2, e3, e4>>
        ELSE <<>>

\* re.match(r"^(\d+/\d+)\b(.*)$", s)
FractionMatch(s) ==
    LET e1 == DigitsEnd(s, 1)
        e2 == DigitsEnd(s, e1 + 1)
    IN  IF /\ e1 > 1
           /\ e1 <= Len(s)
           /\ s[e1] = "/"
           /\ e2 > e1 + 1
           /\ (e2 > Len(s) \/ ~IsWordChar(s[e2]))
        THEN <<e1, e2>>
        ELSE <<>>

\* re.match(r"^(\d+(?:\.\d+)?)\s*(.*)$", s): end of group 1 and its decimals
DecimalMatch(s) ==
    LET e1 == DigitsEnd(s, 1)
        e2 == IF e1 <= Len(s) /\ s[e1] = "." THEN DigitsEnd(s, e1 + 1) ELSE e1
    IN  IF e1 = 1 THEN <<>>
        ELSE IF e2 > e1 + 1 THEN <<e1, e2>> ELSE <<e1, e1>>

\* the three forms tried in the order decimal, mixed number, fraction
parse_number_prefix_decimal_first(line) ==
    LET s == strip(line)
        mm == MixedMatch(s)
        fm == FractionMatch(s)
        dm == DecimalMatch(s)
    IN  IF dm # <<>> THEN
            LET ip == ParseNat(SubSeq(s, 1, dm[1] - 1))
                decs == IF dm[2] > dm[1] THEN SubSeq(s, dm[1] + 1, dm[2] - 1) ELSE <<>>
            IN  [num |-> Some(RAdd(<<ip, 1>>, Rat(ParseNat(decs), Pow10(Len(decs))))),
                 rest |-> strip(From(s, dm[2]))]
        ELSE IF mm # <<>> THEN
            LET whole == ParseNat(SubSeq(s, 1, mm[1] - 1))
                fn == ParseNat(SubSeq(s, mm[2], mm[3] - 1))
                fd == ParseNat(SubSeq(s, mm[3] + 1, mm[4] - 1))
            IN  IF fd = 0 THEN [num |-> None, rest |-> s]
                ELSE [num |-> Some(RAdd(<<whole, 1>>, Rat(fn, fd))), rest |-> strip(From(s, mm[4]))]
        ELSE IF fm # <<>> THEN
            LET fn == ParseNat(SubSeq(s, 1, fm[1] - 1))
                fd == ParseNat(SubSeq(s, fm[1] + 1, fm[2] - 1))
            IN  IF fd = 0 THEN [num |-> None, rest |-> s]
                ELSE [num |-> Some(Rat(fn, fd)), rest |-> strip(From(s, fm[2]))]
        ELSE [num |-> None, rest |-> s]
parse_number_prefix(line) ==
    LET s == strip(line)
        mm == MixedMatch(s)
        fm == FractionMatch(s)
        dm == DecimalMatch(s)
    IN  IF mm # <<>> THEN
            LET whole == ParseNat(SubSeq(s, 1, mm[1] - 1))
                fn == ParseNat(SubSeq(s, mm[2], mm[3] - 1))
                fd == ParseNat(SubSeq(s, mm[3] + 1, mm[4] - 1))
            IN  IF fd = 0 THEN [num |-> None, rest |-> s]
                ELSE [num |-> Some(RAdd(<<whole, 1>>, Rat(fn, fd))), rest |-> strip(From(s, mm[4]))]
        ELSE IF fm # <<>> THEN
            LET fn == ParseNat(SubSeq(s, 1, fm[1] - 1))
                fd == ParseNat(SubSeq(s, fm[1] + 1, fm[2] - 1))
            IN  IF fd = 0 THEN [num |-> None, rest |-> s]
                ELSE [num |-> Some(Rat(fn, fd)), rest |-> strip(From(s, fm[2]))]
        ELSE IF dm # <<>> THEN
            LET ip == ParseNat(SubSeq(s, 1, dm[1] - 1))
                decs == IF dm[2] > dm[1] THEN SubSeq(s, dm[1] + 1, dm[2] - 1) ELSE <<>>
            IN  [num |-> Some(RAdd(<<ip, 1>>, Rat(ParseNat(decs), Pow10(Len(decs))))),
                 rest |-> strip(From(s, dm[2]))]
        ELSE [num |-> None, rest |-> s]

\* the "Smart formatting" branches of scale_ingredients for one parsed line
FormatScaled(scaled_num, rest) ==
    LET frac == limit_denominator(scaled_num, 16)
        text == IF RLess(scaled_num, <<1, 10>>) THEN FormatFixed(scaled_num, 2)
                ELSE IF RLess(scaled_num, <<1, 1>>) THEN
                    IF RLess(RAbsDiff(frac, scaled_num), <<1, 100>>)
                    THEN FractionStr(frac)
                    ELSE FormatFixed(scaled_num, 2)
                ELSE IF RIsInt(scaled_num) THEN NatToStr(scaled_num[1])
                ELSE FormatFixed(scaled_num, 1)
    IN  strip(text \o <<" ">> \o rest)

\* the loop body with the ratio != 1 test left out
ScaleLineAlwaysAnnotated(ing, ratio) ==
    LET p == parse_number_prefix(ing)
    IN  IF p.num = None THEN ing \o Chars(" (×") \o FormatFixed(ratio, 1) \o Chars(")")
        ELSE FormatScaled(RMul(Val(p.num), ratio), p.rest)
ScaleLine(ing, ratio) ==
    LET p == parse_number_prefix(ing)
    IN  IF p.num = None THEN
            IF ratio # <<1, 1>>
            THEN ing \o Chars(" (×") \o FormatFixed(ratio, 1) \o Chars(")")
            ELSE ing
        ELSE FormatScaled(RMul(Val(p.num), ratio), p.rest)

\* max(1, int(servings)) with the sign dropped instead of clamped
ClampServingsMirrored(servings) == IF servings >= 1 THEN servings ELSE 1 - servings
\* max(1, int(servings))
ClampServings(servings) == Max({1, servings})

scale_ingredients(ingredients, original_servings, new_servings) ==
    LET orig == ClampServings(original_servings)
        new == ClampServings(new_servings)
        ratio == Rat(new, orig)
    IN  [i \in 1..Len(ingredients) |-> ScaleLine(ingredients[i], ratio)]

(***************************************************************************)
(* Substitution suggestions.                                               *)
(***************************************************************************)
SubstitutionKeys ==
    <<"butter", "milk", "egg", "yogurt", "sugar", "flour", "cream", "cheese",
      "soy sauce", "vinegar">>

SubstitutionValues ==
    <<  <<"oil", "margarine", "coconut oil", "ghee">>,
        <<"soy milk", "almond milk", "oat milk", "coconut milk">>,
        <<"flaxseed + water", "chia seeds + water", "applesauce", "banana">>,
        <<"sour cream", "buttermilk", "coconut yogurt">>,
        <<"honey", "maple syrup", "agave", "stevia">>,
        <<"almond flour", "coconut flour", "oat flour", "rice flour">>,
        <<"coconut cream", "cashew cream", "evaporated milk">>,
        <<"nutritional yeast", "vegan cheese", "tofu">>,
        <<"tamari", "coconut aminos", "worcestershire sauce">>,
        <<"lemon juice", "lime juice", "white wine">>  >>

\* the dict: key (as characters) -> list of substitutes
SUBSTITUTIONS ==
    [k \in {Chars(SubstitutionKeys[i]) : i \in 1..Len(SubstitutionKeys)} |->
        SubstitutionValues[CHOOSE i \in 1..Len(SubstitutionKeys) : Chars(SubstitutionKeys[i]) = k]]

\* difflib.SequenceMatcher.find_longest_match on a[alo..ahi] and b[blo..bhi]
\* (inclusive bounds): the longest common block, earliest in a, then in b
LongestMatch(a, b, alo, ahi, blo, bhi) ==
    LET blocks == {t \in (alo..ahi) \X (blo..bhi) \X (1..(ahi - alo + 1)) :
                      /\ t[1] + t[3] - 1 <= ahi
                      /\ t[2] + t[3] - 1 <= bhi
                      /\ SubSeq(a, t[1], t[1] + t[3] - 1) = SubSeq(b, t[2], t[2] + t[3] - 1)}
    IN  IF blocks = {} THEN <<alo, blo, 0>>
        ELSE LET k == Max({t[3] : t \in blocks})
                 i == Min({t[1] : t \in {u \in blocks : u[3] = k}})
                 j == Min({t[2] : t \in {u \in blocks : u[3] = k /\ u[1] = i}})
             IN  <<i, j, k>>

\* total size of SequenceMatcher.get_matching_blocks
RECURSIVE MatchingSize(_, _, _, _, _, _)
MatchingSize(a, b, alo, ahi, blo, bhi) ==
    IF alo > ahi \/ blo > bhi THEN 0
    ELSE LET m == LongestMatch(a, b, alo, ahi, blo, bhi)
         IN  IF m[3] = 0 THEN 0
             ELSE m[3] + MatchingSize(a, b, alo, m[1] - 1, blo, m[2] - 1)
                       + MatchingSize(a, b, m[1] + m[3], ahi, m[2] + m[3], bhi)

\* SequenceMatcher(None, x, word).ratio() = 2*M/T as the rational <<2M, T>>
SimilarityRatio(x, word) ==
    LET T == Len(x) + Len(word)
    IN  IF T = 0 THEN <<1, 1>>
        ELSE Rat(2 * MatchingSize(x, word, 1, Len(x), 1, Len(word)), T)

\* code point order of the characters in use: space, digits, upper, lower
CharOrd(c) ==
    IF IsSpace(c) THEN 0
    ELSE IF IsDigit(c) THEN 1 + DigitVal(c)
    ELSE IF IsUpper(c) THEN 20 + (CHOOSE i \in 1..26 : UpperChars[i] = c)
    ELSE IF IsLower(c) THEN 60 + (CHOOSE i \in 1..26 : LowerChars[i] = c)
    ELSE 10

\* s < t in the lexicographic order of str
RECURSIVE StrLess(_, _)
StrLess(s, t) ==
    IF t = <<>> THEN FALSE
    ELSE IF s = <<>> THEN TRUE
    ELSE IF CharOrd(s[1]) # CharOrd(t[1]) THEN CharOrd(s[1]) < CharOrd(t[1])
    ELSE StrLess(Tail(s), Tail(t))

\* get_close_matches(word, possibilities, n=1, cutoff=0.6): [] or the one best key
get_close_matches(word, possibilities) ==
    LET result == {x \in possibilities : RLeq(<<3, 5>>, SimilarityRatio(x, word))}
        better(x, y) == \/ RLess(SimilarityRatio(y, word), SimilarityRatio(x, word))
                        \/ /\ SimilarityRatio(y, word) = SimilarityRatio(x, word)
                           /\ StrLess(y, x)
    IN  IF result = {} THEN <<>>
        ELSE <<CHOOSE x \in result : \A y \in result \ {x} : better(x, y)>>

suggest_substitutions_raw(ingredient) ==
    LET close == get_close_matches(ingredient, DOMAIN SUBSTITUTIONS)
    IN  IF ingredient \in DOMAIN SUBSTITUTIONS THEN SUBSTITUTIONS[ingredient]
        ELSE IF close # <<>> THEN SUBSTITUTIONS[close[1]]
        ELSE <<>>
suggest_substitutions(ingredient) ==
    LET ingredient_lower == strip(lower(ingredient))
        close == get_close_matches(ingredient_lower, DOMAIN SUBSTITUTIONS)
    IN  IF ingredient_lower \in DOMAIN SUBSTITUTIONS THEN SUBSTITUTIONS[ingredient_lower]
        ELSE IF close # <<>> THEN SUBSTITUTIONS[close[1]]
        ELSE <<>>

(***************************************************************************)
(* Recipe matching.  A recipe is a record                                  *)
(*   [id, title, ingredients, servings, time_minutes, difficulty, cuisine, *)
(*    dietary]                                                             *)
(* whose fields other than id and ingredients are optional values.         *)
(***************************************************************************)
NonVegWithoutEgg ==
    {Chars(w) : w \in {"eggs", "chicken", "fish", "meat", "pork", "beef",
                       "shrimp", "tuna", "salmon", "bacon", "ham", "turkey", "lamb",
                       "duck", "crab", "lobster", "anchovy", "anchovies", "gelatin"}}
NON_VEG_INGREDIENTS ==
    {Chars(w) : w \in {"egg", "eggs", "chicken", "fish", "meat", "pork", "beef",
                       "shrimp", "tuna", "salmon", "bacon", "ham", "turkey", "lamb",
                       "duck", "crab", "lobster", "anchovy", "anchovies", "gelatin"}}

\* " ".join(lines)
RECURSIVE Join(_)
Join(lines) ==
    IF lines = <<>> THEN <<>>
    ELSE IF Len(lines) = 1 THEN lines[1]
    ELSE lines[1] \o <<" ">> \o Join(Tail(lines))

SeqToSet(s) == {s[i] : i \in 1..Len(s)}

\* set(i.strip().lower() for i in available_ingredients if i.strip())
AvailableKeepingEmpty(available_ingredients) ==
    {lower(strip(i)) : i \in SeqToSet(available_ingredients)}
Available(available_ingredients) ==
    {lower(strip(i)) : i \in {x \in SeqToSet(available_ingredients) : strip(x) # <<>>}}

\* set(ing.lower() for ing in recipe.get("ingredients", []))
Req(recipe) == {lower(ing) : ing \in SeqToSet(recipe.ingredients)}

\* truthiness of an optional string argument and of an optional number
TruthyStr(o) == o # None /\ Val(o) # <<>>
TruthyNum(o) == o # None /\ Val(o) # 0

\* the non-vegetarian test of the dietary filter
HasNonVeg(recipe) ==
    LET recipe_ings == lower(Join(recipe.ingredients))
    IN  \E non_veg \in NON_VEG_INGREDIENTS : Contains(recipe_ings, non_veg)

\* the cuisine filter with the filter value compared as it was passed
CuisineSkipsAsGiven(recipe, cuisine) ==
    /\ TruthyStr(cuisine)
    /\ Val(cuisine) # Chars("any")
    /\ lower(Get(recipe.cuisine, <<>>)) # Val(cuisine)
\* the cuisine filter; TRUE when the recipe is skipped
CuisineSkips(recipe, cuisine) ==
    /\ TruthyStr(cuisine)
    /\ lower(Val(cuisine)) # Chars("any")
    /\ lower(Get(recipe.cuisine, <<>>)) # lower(Val(cuisine))

\* the five hard filters; TRUE when the recipe is not skipped
PassesFilters(recipe, dietary, difficulty, max_time, cuisine) ==
    /\ ~(/\ dietary \in {Some(Chars("vegetarian")), Some(Chars("vegan"))}
         /\ HasNonVeg(recipe))
    /\ ~(/\ TruthyStr(dietary)
         /\ Val(dietary) \notin {lower(d) : d \in SeqToSet(Get(recipe.dietary, <<>>))})
    /\ ~(/\ TruthyStr(difficulty)
         /\ lower(Get(recipe.difficulty, <<>>)) # Val(difficulty))
    /\ ~(/\ TruthyNum(max_time)
         /\ Get(recipe.time_minutes, 0) > Val(max_time))
    /\ ~CuisineSkips(recipe, cuisine)

\* the iteration orders a set may have
RECURSIVE Orders(_)
Orders(S) ==
    IF S = {} THEN {<<>>}
    ELSE UNION {{<<x>> \o o : o \in Orders(S \ {x})} : x \in S}

Matches(avail_ing, req_ing) == Contains(req_ing, avail_ing) \/ Contains(avail_ing, req_ing)

\* the pairs <<avail_ing, req_ing>> that pass the test of the inner loop
MatchPairs(available, req) == {p \in available \X req : Matches(p[1], p[2])}

\* the inner loops of "Calculate match score" when req iterates in order o:
\* each available ingredient contributes the first required line it matches
MatchedIn(pairs, available, o) ==
    {o[Min({i \in DOMAIN o : <<a, o[i]>> \in pairs})] :
        a \in {x \in available : \E i \in DOMAIN o : <<x, o[i]>> \in pairs}}

\* every matched_ingredients set some iteration order of req produces
MatchedOutcomes(available, req) ==
    LET pairs == MatchPairs(available, req)
    IN  {MatchedIn(pairs, available, o) : o \in Orders(req)}

\* len(available & req)
ExactMatches(available, req) == Cardinality(available \cap req)

\* the record appended to results; exact_matches is the local of the loop
\* body that enters the score
ScoreEntry(recipe, available, matched_ingredients) ==
    LET req == Req(recipe)
        match_count == Cardinality(matched_ingredients)
        total_required == Cardinality(req)
        match_ratio == Rat(match_count, Max({1, total_required}))
        exact_matches == ExactMatches(available, req)
        base == RAdd(<<match_count * 2 + exact_matches * 3, 1>>, RMul(match_ratio, <<10, 1>>))
    IN  [recipe |-> recipe,
         score |-> IF total_required <= 5 THEN RAdd(base, <<2, 1>>) ELSE base,
         match_count |-> match_count,
         total_required |-> total_required,
         match_ratio |-> match_ratio,
         exact_matches |-> exact_matches,
         matched_ingredients |-> matched_ingredients]

\* a recipe is scored whatever it matched
NoMatchNever(matched_ingredients) == FALSE

\* if not matched_ingredients: continue
NoMatch(matched_ingredients) == matched_ingredients = {}

\* every results list the loop over recipes[i..] can build
RECURSIVE ResultsFrom(_, _, _, _, _, _, _)
ResultsFrom(recipes, i, available, dietary, difficulty, max_time, cuisine) ==
    IF i > Len(recipes) THEN {<<>>}
    ELSE LET rest == ResultsFrom(recipes, i + 1, available, dietary, difficulty, max_time, cuisine)
             recipe == recipes[i]
         IN  IF ~PassesFilters(recipe, dietary, difficulty, max_time, cuisine) THEN rest
             ELSE UNION {IF NoMatch(m) THEN rest
                         ELSE {<<ScoreEntry(recipe, available, m)>> \o r : r \in rest} :
                         m \in MatchedOutcomes(available, Req(recipe))}

\* results.sort(key=score, reverse=True): stable, descending
RECURSIVE SortByScore(_)
SortByScore(items) ==
    IF items = <<>> THEN <<>>
    ELSE LET front == SortByScore(SubSeq(items, 1, Len(items) - 1))
             e == items[Len(items)]
             k == Cardinality({i \in DOMAIN front : RLeq(e.score, front[i].score)})
         IN  SubSeq(front, 1, k) \o <<e>> \o SubSeq(front, k + 1, Len(front))

\* re.sub(r"\(.*?\)", "", s)
RECURSIVE RemoveParens(_)
RemoveParens(s) ==
    LET opens == {i \in DOMAIN s : s[i] = "("}
        closes == {j \in DOMAIN s : s[j] = ")" /\ opens # {} /\ j > Min(opens)}
    IN  IF opens = {} \/ closes = {} THEN s
        ELSE SubSeq(s, 1, Min(opens) - 1) \o RemoveParens(From(s, Min(closes) + 1))

NormTitle(title) == strip(RemoveParens(lower(title)))

\* seen_titles.add(norm_title)
AddSeenDropped(seen_titles, norm_title) == seen_titles
AddSeen(seen_titles, norm_title) == seen_titles \cup {norm_title}

\* len(unique_results) >= max_results, tested after the append
ReachedMaxOffByOne(unique_results, max_results) == Len(unique_results) > max_results
ReachedMax(unique_results, max_results) == Len(unique_results) >= max_results

\* the deduplication loop from item i on; err when recipe["title"] raises
RECURSIVE DedupLoop(_, _, _, _, _)
DedupLoop(items, i, seen_titles, unique_results, max_results) ==
    IF i > Len(items) THEN [err |-> FALSE, out |-> unique_results]
    ELSE LET recipe == items[i].recipe
         IN  IF recipe.title = None THEN [err |-> TRUE, out |-> <<>>]
             ELSE LET norm_title == NormTitle(Val(recipe.title))
                  IN  IF norm_title \in seen_titles
                      THEN DedupLoop(items, i + 1, seen_titles, unique_results, max_results)
                      ELSE IF ReachedMax(Append(unique_results, recipe), max_results)
                      THEN [err |-> FALSE, out |-> Append(unique_results, recipe)]
                      ELSE DedupLoop(items, i + 1, AddSeen(seen_titles, norm_title),
                                     Append(unique_results, recipe), max_results)

\* what match_recipes returns once results is sorted
UniqueResults(sorted, max_results) ==
    LET d == DedupLoop(sorted, 1, {}, <<>>, max_results)
    IN  IF d.err THEN <<>> ELSE d.out

\* every sorted results list a call can compute (one per iteration order of
\* the required-ingredient sets); empty when the early return is taken
SortedResults(available_ingredients, recipes, dietary, difficulty, max_time, cuisine) ==
    LET available == Available(available_ingredients)
    IN  IF available = {} THEN {<<>>}
        ELSE {SortByScore(r) :
                 r \in ResultsFrom(recipes, 1, available, dietary, difficulty, max_time, cuisine)}

(***************************************************************************)
(* Recommendations from ratings.                                           *)
(***************************************************************************)
\* s[:n] of a list
SliceOneMore(s, n) ==
    IF n >= 0 THEN SubSeq(s, 1, Min({n + 1, Len(s)}))
    ELSE SubSeq(s, 1, Max({0, Len(s) + n}))
Slice(s, n) ==
    IF n >= 0 THEN SubSeq(s, 1, Min({n, Len(s)}))
    ELSE SubSeq(s, 1, Max({0, Len(s) + n}))

\* [rid for rid, r in user_ratings.items() if r >= 4]
Liked(user_ratings) == {rid \in DOMAIN user_ratings : user_ratings[rid] >= 4}

\* number of positions of s that hold x
Count(s, x) == Cardinality({i \in DOMAIN s : s[i] = x})

RECURSIVE SumSeq(_)
SumSeq(s) == IF s = <<>> THEN 0 ELSE s[1] + SumSeq(Tail(s))

\* the three frequency tables, as functions of the looked-up key
CuisineCount(liked_recipes, cuisine) ==
    Cardinality({i \in DOMAIN liked_recipes :
                    Get(liked_recipes[i].cuisine, Chars("unknown")) = cuisine})
DietaryCount(liked_recipes, diet) ==
    SumSeq([i \in DOMAIN liked_recipes |-> Count(Get(liked_recipes[i].dietary, <<>>), diet)])
DifficultyCount(liked_recipes, diff) ==
    Cardinality({i \in DOMAIN liked_recipes :
                    Get(liked_recipes[i].difficulty, Chars("medium")) = diff})

\* the three counts added without their weights
RecommendScoreUnweighted(recipe, liked_recipes) ==
    LET tags == Get(recipe.dietary, <<>>)
    IN  CuisineCount(liked_recipes, Get(recipe.cuisine, Chars("unknown")))
        + SumSeq([i \in DOMAIN tags |-> DietaryCount(liked_recipes, tags[i])])
        + DifficultyCount(liked_recipes, Get(recipe.difficulty, Chars("medium")))

RecommendScore(recipe, liked_recipes) ==
    LET tags == Get(recipe.dietary, <<>>)
    IN  CuisineCount(liked_recipes, Get(recipe.cuisine, Chars("unknown"))) * 3
        + SumSeq([i \in DOMAIN tags |-> DietaryCount(liked_recipes, tags[i]) * 2])
        + DifficultyCount(liked_recipes, Get(recipe.difficulty, Chars("medium")))

\* scored_recipes.sort(key=score, reverse=True) on <<score, recipe>> pairs
RECURSIVE SortScored(_)
SortScored(items) ==
    IF items = <<>> THEN <<>>
    ELSE LET front == SortScored(SubSeq(items, 1, Len(items) - 1))
             e == items[Len(items)]
             k == Cardinality({i \in DOMAIN front : front[i][1] >= e[1]})
         IN  SubSeq(front, 1, k) \o <<e>> \o SubSeq(front, k + 1, Len(front))

\* the scoring loop passes over no recipe
SkipsLikedNever(recipe, liked) == FALSE

\* if recipe["id"] in liked: continue
SkipsLiked(recipe, liked) == recipe.id \in liked

\* the scoring loop from recipe i on
RECURSIVE ScoredRecipes(_, _, _, _)
ScoredRecipes(recipes, i, liked, liked_recipes) ==
    IF i > Len(recipes) THEN <<>>
    ELSE LET rest == ScoredRecipes(recipes, i + 1, liked, liked_recipes)
             score == RecommendScore(recipes[i], liked_recipes)
         IN  IF SkipsLiked(recipes[i], liked) THEN rest
             ELSE IF score > 0 THEN <<<<score, recipes[i]>>>> \o rest
             ELSE rest

\* the list scored_recipes of <<score, recipe>> pairs after its sort; it is
\* not built when no rating is 4 or more
scored_recipes(recipes, user_ratings) ==
    LET liked == Liked(user_ratings)
        liked_recipes == SelectSeq(recipes, LAMBDA r : r.id \in liked)
    IN  IF liked = {} THEN <<>>
        ELSE SortScored(ScoredRecipes(recipes, 1, liked, liked_recipes))

recommend_from_ratings(recipes, user_ratings, top_n) ==
    LET top == Slice(scored_recipes(recipes, user_ratings), top_n)
    IN  IF Liked(user_ratings) = {} THEN Slice(recipes, top_n)
        ELSE [i \in DOMAIN top |-> top[i][2]]

(***************************************************************************)
(* The ratings table.                                                      *)
(***************************************************************************)
\* rating INTEGER CHECK(rating >= 0 AND rating <= 5)
CheckRating(rating) == rating >= 0 /\ rating <= 5

\* INSERT OR IGNORE: a row whose recipe_id is already stored stays as it is
InsertOrIgnore(table, recipe_id, rating) ==
    IF \E row \in table : row[1] = recipe_id THEN table
    ELSE table \cup {<<recipe_id, rating>>}

\* INSERT OR REPLACE INTO ratings (recipe_id, rating): the row that holds the
\* PRIMARY KEY recipe_id is deleted before the new row is inserted
InsertOrReplace(table, recipe_id, rating) ==
    {row \in table : row[1] # recipe_id} \cup {<<recipe_id, rating>>}

\* what set_rating returns and the table it leaves; db_ok is FALSE when
\* sqlite3 raises, which the except clause turns into False
set_rating(table, recipe_id, rating, db_ok) ==
    IF ~(0 <= rating /\ rating <= 5) THEN [ret |-> FALSE, table |-> table]
    ELSE IF ~db_ok \/ ~CheckRating(rating) THEN [ret |-> FALSE, table |-> table]
    ELSE [ret |-> TRUE, table |-> InsertOrReplace(table, recipe_id, rating)]

\* {row[0]: row[1] for row in c.fetchall()}, {} when sqlite3 raises
get_user_ratings(table, db_ok) ==
    IF ~db_ok THEN [id \in {} |-> 0]
    ELSE [id \in {row[1] : row \in table} |-> (CHOOSE row \in table : row[1] = id)[2]]

(***************************************************************************)
(* Inputs of the model: concrete recipes, pantries, lines and ratings.     *)
(***************************************************************************)
Lines(strs) == [i \in DOMAIN strs |-> Chars(strs[i])]

Recipe(id, title, ingredients, servings, time_minutes, difficulty, cuisine, dietary) ==
    [id |-> id, title |-> title, ingredients |-> Lines(ingredients), servings |-> servings,
     time_minutes |-> time_minutes, difficulty |-> difficulty, cuisine |-> cuisine,
     dietary |-> dietary]

R1 == Recipe("r1", Some(Chars("Pancakes")), <<"2 eggs", "1 cup milk", "1 cup flour">>,
             Some(2), Some(20), Some(Chars("easy")), Some(Chars("American")),
             Some(Lines(<<"vegetarian">>)))
R2 == Recipe("r2", Some(Chars("Tomato Soup (v2)")),
             <<"2 tomatoes", "1 onion", "salt", "1 cup water">>,
             Some(4), Some(30), Some(Chars("easy")), Some(Chars("Italian")),
             Some(Lines(<<"vegetarian", "vegan">>)))
R3 == Recipe("r3", Some(Chars("Tomato Soup")), <<"4 tomatoes">>,
             Some(2), Some(15), Some(Chars("Medium")), Some(Chars("italian")),
             Some(Lines(<<"Vegan">>)))
R4 == Recipe("r4", Some(Chars("Vegan Omelette")), <<"1 egg", "1 tsp Salt">>,
             Some(1), Some(10), Some(Chars("easy")), Some(Chars("French")),
             Some(Lines(<<"vegan">>)))
R5 == Recipe("r5", Some(Chars("Eggplant Dip")), <<"eggplant">>,
             Some(2), Some(20), Some(Chars("easy")), Some(Chars("Italian")),
             Some(Lines(<<"vegan", "vegetarian">>)))
R6 == Recipe("r6", None, <<"1 cup milk">>, None, None, None, None, None)

R7 == Recipe("r7", Some(Chars("Plain Rice")), <<"1 cup rice">>,
             Some(2), None, Some(Chars("medium")), None, Some(<<>>))

RecipePool == {R1, R2, R3, R4, R5, R6}

\* recipe lists: up to MaxRecipes distinct pool recipes in any order
RecipeLists ==
    UNION {{l \in [1..n -> RecipePool] : \A i, j \in 1..n : i # j => l[i] # l[j]} :
              n \in 0..MaxRecipes}

\* recipe lists of the recommender: up to MaxRecommendRecipes distinct
\* recipes, among them R6 without optional fields and R7 with an empty tag
\* list and no cuisine
RecommendPool == {R1, R2, R5, R6, R7}
RecommendLists ==
    UNION {{l \in [1..n -> RecommendPool] : \A i, j \in 1..n : i # j => l[i] # l[j]} :
              n \in 0..MaxRecommendRecipes}

AvailableLists ==
    {Lines(l) : l \in {<<>>, <<" ", "">>, <<"egg", "milk", "flour">>, <<"egg">>,
                       <<" Tomato ", "egg", "salt">>, <<"egg", "cup", "milk">>,
                       <<"eggplant", "salt">>}}

DietaryArgs == {None, Some(Chars("vegan")), Some(Chars("vegetarian")), Some(Chars("Vegan"))}
DifficultyArgs == {None, Some(Chars("easy")), Some(Chars("Easy"))}
MaxTimeArgs == {None, Some(0), Some(20)}
CuisineArgs == {None, Some(Chars("Any")), Some(Chars("Italian"))}
MaxResultsArgs == 1..MaxResultsBound
\* <<dietary, difficulty, max_time, cuisine>> with at most MaxFilters of them set
FilterArgs ==
    {f \in DietaryArgs \X DifficultyArgs \X MaxTimeArgs \X CuisineArgs :
        Cardinality({i \in 1..4 : f[i] # None}) <= MaxFilters}

ScaleLists ==
    {Lines(l) : l \in {<<"2 eggs", "1 cup milk", "1 cup flour">>, <<"0 eggs">>,
                       <<"1 1/2 cups sugar", "1/2 tsp salt">>, <<"Fresh basil", "13 g flour">>,
                       <<"3 eggs">>, <<"1.5 cups">>, <<" a pinch ", "1/0 cup oil">>}}
ServingsArgs == (-1)..MaxServings

SuggestArgs ==
    {Chars(w) : w \in {"butter", " BUTTER ", "Butter", "Soy Sauce", "egg", "eggs", "buter",
                       "salt", "2", "", "milk", "yogurt", "sugar", "flour", "cream",
                       "cheese", "vinegar", "VINEGAR "}}

RatingValues == {3, 4}
RatedIds == {"r1", "r2", "r6"}
RatingsMaps == UNION {[ids -> RatingValues] : ids \in SUBSET RatedIds}
TopNArgs == (-1)..MaxTopN
RatingArgs == (-1)..MaxRatingArg

(***************************************************************************)
(* The state machine: each action is one call of an operation of the core. *)
(***************************************************************************)
Init ==
    /\ call = [op |-> "init"]
    /\ ret = <<>>
    /\ results = <<>>
    /\ ratings = {}

\* no call is in progress
Idle == call.op = "init"

CallMatchRecipes ==
    /\ Idle
    /\ UNCHANGED ratings
    /\ \E available_ingredients \in AvailableLists, recipes \in RecipeLists,
          filters \in FilterArgs :
        \E sorted \in SortedResults(available_ingredients, recipes, filters[1], filters[2],
                                    filters[3], filters[4]), max_results \in MaxResultsArgs :
            /\ call' = [op |-> "match_recipes", available_ingredients |-> available_ingredients,
                        recipes |-> recipes, dietary |-> filters[1], difficulty |-> filters[2],
                        max_time |-> filters[3], cuisine |-> filters[4],
                        max_results |-> max_results]
            /\ results' = sorted
            /\ ret' = UniqueResults(sorted, max_results)

CallScaleIngredients ==
    /\ Idle
    /\ UNCHANGED ratings
    /\ \E ingredients \in ScaleLists, original_servings \in ServingsArgs, new_servings \in ServingsArgs :
        /\ call' = [op |-> "scale_ingredients", ingredients |-> ingredients,
                    original_servings |-> original_servings, new_servings |-> new_servings,
                    origin |-> None]
        /\ ret' = scale_ingredients(ingredients, original_servings, new_servings)
        /\ results' = <<>>

\* scale the list just returned back to the serving count it came from
CallScaleBack ==
    /\ call.op = "scale_ingredients"
    /\ call.origin = None
    /\ call' = [op |-> "scale_ingredients", ingredients |-> ret,
                original_servings |-> call.new_servings, new_servings |-> call.original_servings,
                origin |-> Some(call.ingredients)]
    /\ ret' = scale_ingredients(ret, call.new_servings, call.original_servings)
    /\ results' = <<>>
    /\ UNCHANGED ratings

CallSuggestSubstitutions ==
    /\ Idle
    /\ UNCHANGED ratings
    /\ \E ingredient \in SuggestArgs :
        /\ call' = [op |-> "suggest_substitutions", ingredient |-> ingredient]
        /\ ret' = suggest_substitutions(ingredient)
        /\ results' = <<>>

CallRecommendFromRatings ==
    /\ Idle
    /\ UNCHANGED ratings
    /\ \E recipes \in RecommendLists, user_ratings \in RatingsMaps, top_n \in TopNArgs :
        /\ call' = [op |-> "recommend_from_ratings", recipes |-> recipes,
                    user_ratings |-> user_ratings, top_n |-> top_n]
        /\ ret' = recommend_from_ratings(recipes, user_ratings, top_n)
        /\ results' = scored_recipes(recipes, user_ratings)

\* the call returns to its caller; the transient values are dropped
Return ==
    /\ ~Idle
    /\ call' = [op |-> "init"]
    /\ ret' = <<>>
    /\ results' = <<>>
    /\ UNCHANGED ratings

Next ==
    \/ CallMatchRecipes
    \/ CallScaleIngredients
    \/ CallScaleBack
    \/ CallSuggestSubstitutions
    \/ CallRecommendFromRatings
    \/ Return

Spec == Init /\ [][Next]_vars

(***************************************************************************)
(* The ratings table under set_rating and get_user_ratings: a second      *)
(* specification, from the empty table.                                    *)
(***************************************************************************)
CallSetRating ==
    /\ Idle
    /\ \E recipe_id \in RatedIds, rating \in RatingArgs, db_ok \in BOOLEAN :
        LET r == set_rating(ratings, recipe_id, rating, db_ok)
        IN  /\ call' = [op |-> "set_rating", recipe_id |-> recipe_id, rating |-> rating]
            /\ ret' = r.ret
            /\ ratings' = r.table
            /\ results' = <<>>

CallGetUserRatings ==
    /\ Idle
    /\ \E db_ok \in BOOLEAN :
        /\ call' = [op |-> "get_user_ratings"]
        /\ ret' = get_user_ratings(ratings, db_ok)
        /\ results' = <<>>
        /\ UNCHANGED ratings

NextRatings ==
    \/ CallSetRating
    \/ CallGetUserRatings
    \/ Return

SpecRatings == Init /\ [][NextRatings]_vars

(***************************************************************************)
(* Properties.                                                             *)
(***************************************************************************)
IsMatch == call.op = "match_recipes"
IsScale == call.op = "scale_ingredients"
IsSuggest == call.op = "suggest_substitutions"
IsRecommend == call.op = "recommend_from_ratings"

NoFilters ==
    /\ call.dietary = None
    /\ call.difficulty = None
    /\ call.max_time = None
    /\ call.cuisine = None

\* the title with its letters lowercased, parenthetical content removed, trimmed
TitleKey(recipe) == strip(RemoveParens(lower(Val(recipe.title))))

\* C1: for every maxResults >= 1 the list match_recipes returns has at most
\* maxResults entries.
C1_MaxResultsRespected ==
    (IsMatch /\ call.max_results >= 1) => Len(ret) <= call.max_results

\* C1 witness: more candidates with distinct titles than maxResults, and the
\* returned list is cut to maxResults.
C1_Witness ==
    /\ IsMatch
    /\ \A i \in DOMAIN results : results[i].recipe.title # None
    /\ Cardinality({TitleKey(results[i].recipe) : i \in DOMAIN results}) > call.max_results
    /\ Len(ret) = call.max_results

\* the tokens a normaliser that strips leading quantity and unit words can
\* produce from a line: the lowercased line from any word start on, also
\* with a plural "s" or "es" dropped
NormalizedForms(line) ==
    LET s == strip(lower(line))
        starts == {i \in DOMAIN s : i = 1 \/ IsSpace(s[i - 1])}
        tails == {strip(From(s, i)) : i \in starts}
        drop(t, suffix) ==
            IF Len(t) > Len(suffix) /\ From(t, Len(t) - Len(suffix) + 1) = suffix
            THEN SubSeq(t, 1, Len(t) - Len(suffix)) ELSE t
    IN  tails \cup {drop(t, Chars("s")) : t \in tails} \cup {drop(t, Chars("es")) : t \in tails}

SharesIngredient(available_ingredients, recipe) ==
    \E a \in Available(available_ingredients), i \in DOMAIN recipe.ingredients :
        a \in NormalizedForms(recipe.ingredients[i])

\* C2: a recipe none of whose normalized required ingredients equals an
\* available token is never returned by match_recipes.
C2_NoSharedIngredientAbsent ==
    IsMatch =>
        \A i \in DOMAIN ret : SharesIngredient(call.available_ingredients, ret[i])

\* a line that contains "egg" in any letter case
HasEggLine(recipe) ==
    \E i \in DOMAIN recipe.ingredients : Contains(lower(recipe.ingredients[i]), Chars("egg"))

\* C3: with dietary = "vegan" no returned recipe has an ingredient line
\* containing "egg", whatever the recipe's own dietary tags say.
C3_VeganNeverEgg ==
    (IsMatch /\ call.dietary = Some(Chars("vegan"))) =>
        \A i \in DOMAIN ret : ~HasEggLine(ret[i])

\* C3 witness: a vegan call over a recipe that is tagged vegan, contains egg
\* and matches the pantry, next to a recipe that is returned.
C3_Witness ==
    /\ IsMatch
    /\ call.dietary = Some(Chars("vegan"))
    /\ \E i \in DOMAIN call.recipes :
          /\ HasEggLine(call.recipes[i])
          /\ Chars("vegan") \in SeqToSet(Get(call.recipes[i].dietary, <<>>))
          /\ PassesFilters(call.recipes[i], None, call.difficulty, call.max_time, call.cuisine)
          /\ \E a \in Available(call.available_ingredients), r \in Req(call.recipes[i]) :
                Matches(a, r)
    /\ ret # <<>>

\* C4: no two returned recipes have titles equal after lowercasing and
\* removing parenthetical content, and each returned recipe is the first of
\* its title group in the sorted candidate order.
C4_DedupKeepsFirst ==
    IsMatch =>
        /\ \A i, j \in DOMAIN ret : i # j => TitleKey(ret[i]) # TitleKey(ret[j])
        /\ \A i \in DOMAIN ret :
              \E k \in DOMAIN results :
                  /\ results[k].recipe = ret[i]
                  /\ \A m \in 1..(k - 1) : TitleKey(results[m].recipe) # TitleKey(ret[i])

\* C4 witness: two candidates whose titles differ only by a parenthetical
\* suffix, one of them dropped although maxResults leaves room for both.
C4_Witness ==
    /\ IsMatch
    /\ Len(results) = 2
    /\ call.max_results >= 2
    /\ results[1].recipe.title # None /\ results[2].recipe.title # None
    /\ results[1].recipe.title # results[2].recipe.title
    /\ TitleKey(results[1].recipe) = TitleKey(results[2].recipe)
    /\ ret = <<results[1].recipe>>

\* C5: for r1 = ["2 eggs", "1 cup milk", "1 cup flour"] and the pantry
\* ["egg", "milk", "flour"] without filters, r1 is returned and its
\* exact-match count is 3.
C5_ExactCountThree ==
    (/\ IsMatch
     /\ call.recipes = <<R1>>
     /\ call.available_ingredients = Lines(<<"egg", "milk", "flour">>)
     /\ NoFilters) =>
        /\ ret = <<R1>>
        /\ results[1].exact_matches = 3

\* a line "q rest": an integer, one space, and a remainder that does not go
\* on with a digit (which would make a mixed number)
IntegerLine(line) ==
    LET e == DigitsEnd(line, 1)
    IN  /\ e > 1
        /\ e < Len(line)
        /\ line[e] = " "
        /\ ~IsSpace(line[e + 1]) /\ ~IsDigit(line[e + 1])
        /\ ~IsSpace(line[Len(line)])
IntegerOf(line) == ParseNat(SubSeq(line, 1, DigitsEnd(line, 1) - 1))
RemainderOf(line) == From(line, DigitsEnd(line, 1) + 1)

\* C6: a line "q rest" whose scaled quantity q*new/orig is integral becomes
\* "{q*new/orig} rest" at the same position, so ["2 eggs", "1 cup milk",
\* "1 cup flour"] from 2 to 4 servings gives ["4 eggs", "2 cup milk",
\* "2 cup flour"].
C6_IntegerScaling ==
    (IsScale /\ call.original_servings >= 1 /\ call.new_servings >= 1) =>
        /\ Len(ret) = Len(call.ingredients)
        /\ \A i \in DOMAIN call.ingredients :
              LET line == call.ingredients[i]
                  q == IntegerOf(line)
              IN  (/\ IntegerLine(line)
                   /\ (q * call.new_servings) % call.original_servings = 0) =>
                      ret[i] = NatToStr((q * call.new_servings) \div call.original_servings)
                                  \o <<" ">> \o RemainderOf(line)

\* the tolerance granted to a round trip: one unit of the coarsest rendering
RoundTripTolerance == <<1, 10>>

\* C7: scaling a to b and back b to a reproduces the quantity of every line
\* with a parseable quantity within the rounding tolerance.
C7_RoundTrip ==
    (/\ IsScale
     /\ call.origin # None
     /\ call.original_servings >= 1
     /\ call.new_servings >= 1) =>
        \A i \in DOMAIN Val(call.origin) :
            LET before == parse_number_prefix(Val(call.origin)[i])
                after == parse_number_prefix(ret[i])
            IN  before.num # None =>
                    /\ after.num # None
                    /\ RLeq(RAbsDiff(Val(after.num), Val(before.num)), RoundTripTolerance)

\* a string that is empty or holds whitespace only
Blank(str) == \A i \in DOMAIN str : IsSpace(str[i])

\* C8: an available list that is empty or holds only blank strings yields
\* the empty list.
C8_EmptyAvailableEmptyResult ==
    (IsMatch /\ \A i \in DOMAIN call.available_ingredients : Blank(call.available_ingredients[i])) =>
        ret = <<>>

\* C8 witness: a call with only blank available strings over a non-empty
\* recipe list and without filters.
C8_Witness ==
    /\ IsMatch
    /\ call.available_ingredients = Lines(<<" ", "">>)
    /\ Len(call.recipes) = MaxRecipes
    /\ NoFilters
    /\ ret = <<>>

NoHighRating == \A id \in DOMAIN call.user_ratings : call.user_ratings[id] < 4

\* C9 as stated: with no rating >= 4 the result is no longer than topN, for
\* every topN.
C9_FallbackAtMostTopN_AnyTopN ==
    (IsRecommend /\ NoHighRating) => Len(ret) <= call.top_n

\* C9 amended: with no rating >= 4 the result is no longer than topN, for
\* every topN >= 0.
C9_FallbackAtMostTopN ==
    (IsRecommend /\ NoHighRating /\ call.top_n >= 0) => Len(ret) <= call.top_n

\* C9 witness: the fallback cuts a longer recipe list to topN >= 1 entries
\* while some ratings, all below 4, are present.
C9_Witness ==
    /\ IsRecommend
    /\ NoHighRating
    /\ DOMAIN call.user_ratings # {}
    /\ call.top_n >= 1
    /\ Len(call.recipes) > call.top_n
    /\ ret = SubSeq(call.recipes, 1, call.top_n)

\* C10: for a catalog key, in any letter case and with surrounding
\* whitespace, suggest_substitutions returns exactly the catalog's list of
\* that key; for "butter" the list is non-empty and contains "oil".
C10_ExactLookup ==
    IsSuggest =>
        /\ \A i \in DOMAIN SubstitutionKeys :
              strip(lower(call.ingredient)) = Chars(SubstitutionKeys[i]) =>
                  ret = SubstitutionValues[i]
        /\ call.ingredient = Chars("butter") => (ret # <<>> /\ "oil" \in SeqToSet(ret))

\* C10 witness: the key "butter" in upper case between spaces is looked up
\* and "oil" is among the substitutes.
C10_Witness ==
    /\ IsSuggest
    /\ call.ingredient = Chars(" BUTTER ")
    /\ "oil" \in SeqToSet(ret)

\* the ratio new/orig that scale_ingredients computes for the current call
CallRatio == Rat(ClampServings(call.new_servings), ClampServings(call.original_servings))

\* C11: the serving ratio is strictly positive for every pair of integer
\* inputs, and scale_ingredients(L, s, n) with s <= 0 returns what
\* scale_ingredients(L, 1, n) returns.
C11_ClampedOriginalServings ==
    IsScale =>
        /\ CallRatio[1] > 0 /\ CallRatio[2] > 0
        /\ call.original_servings <= 0 =>
              ret = scale_ingredients(call.ingredients, 1, call.new_servings)

\* C11 witness: "3 eggs" scaled from a non-positive serving count to 2
\* servings is doubled, as it is from 1 serving.
C11_Witness ==
    /\ IsScale
    /\ call.origin = None
    /\ call.original_servings < 0
    /\ call.new_servings = 2
    /\ call.ingredients = Lines(<<"3 eggs">>)
    /\ ret = Lines(<<"6 eggs">>)

\* text is a decimal numeral with nothing after it, within 1/20 of x
RendersNumber(text, x) ==
    LET p == parse_number_prefix(text)
    IN  /\ p.num # None
        /\ p.rest = <<>>
        /\ RLeq(RAbsDiff(Val(p.num), x), <<1, 20>>)

\* C12: a line without a parseable leading quantity is returned unchanged
\* when the ratio is exactly 1 and otherwise as the unmodified line followed
\* by " (x ratio)" with the multiplication sign; the output has one entry per
\* input line, in the same order.
C12_UnparsedLineAnnotated ==
    IsScale =>
        /\ Len(ret) = Len(call.ingredients)
        /\ \A i \in DOMAIN call.ingredients :
              LET ing == call.ingredients[i]
                  out == ret[i]
                  head == ing \o Chars(" (×")
              IN  parse_number_prefix(ing).num = None =>
                      IF CallRatio = <<1, 1>> THEN out = ing
                      ELSE /\ Len(out) > Len(head) + 1
                           /\ SubSeq(out, 1, Len(head)) = head
                           /\ out[Len(out)] = ")"
                           /\ RendersNumber(SubSeq(out, Len(head) + 1, Len(out) - 1), CallRatio)

\* C12 witness: a line of words and a line with the malformed quantity 1/0,
\* scaled from 1 to 3 servings, come back annotated and in order.
C12_Witness ==
    /\ IsScale
    /\ call.origin = None
    /\ call.ingredients = Lines(<<" a pinch ", "1/0 cup oil">>)
    /\ call.original_servings = 1
    /\ call.new_servings = 3
    /\ ret = Lines(<<" a pinch  (×3.0)", "1/0 cup oil (×3.0)">>)

\* every list match_recipes can return on the arguments of the current call
MatchReturns ==
    {UniqueResults(sorted, call.max_results) :
        sorted \in SortedResults(call.available_ingredients, call.recipes, call.dietary,
                                 call.difficulty, call.max_time, call.cuisine)}

\* C13: the result of each operation is determined by its explicit inputs:
\* any two calls with equal inputs return equal results.
C13_EqualInputsEqualResults ==
    /\ IsMatch => MatchReturns = {ret}
    /\ IsScale => ret = scale_ingredients(call.ingredients, call.original_servings,
                                          call.new_servings)
    /\ IsSuggest => ret = suggest_substitutions(call.ingredient)
    /\ IsRecommend => ret = recommend_from_ratings(call.recipes, call.user_ratings, call.top_n)

\* the candidate entry of a returned recipe and its position in the input
EntryOf(recipe) == results[CHOOSE k \in DOMAIN results : results[k].recipe = recipe]
InputIndex(recipe) == CHOOSE k \in DOMAIN call.recipes : call.recipes[k] = recipe

\* C14: the returned recipes are ordered by score descending, then by overlap
\* ratio descending among equal scores, then by their order in the input.
C14_OrderedByScoreThenRatio ==
    IsMatch =>
        \A i, j \in DOMAIN ret :
            i < j =>
                LET a == EntryOf(ret[i])
                    b == EntryOf(ret[j])
                IN  \/ RLess(b.score, a.score)
                    \/ /\ a.score = b.score
                       /\ RLess(b.match_ratio, a.match_ratio)
                    \/ /\ a.score = b.score
                       /\ a.match_ratio = b.match_ratio
                       /\ InputIndex(ret[i]) < InputIndex(ret[j])

\* the whitespace-separated words of a line
Tokens(line) ==
    {SubSeq(line, i, j) : <<i, j>> \in
        {p \in (DOMAIN line) \X (DOMAIN line) :
            /\ p[1] <= p[2]
            /\ \A k \in p[1]..p[2] : ~IsSpace(line[k])
            /\ (p[1] = 1 \/ IsSpace(line[p[1] - 1]))
            /\ (p[2] = Len(line) \/ IsSpace(line[p[2] + 1]))}}

\* a required ingredient (the line or one of its words) is itself a member
\* of the non-vegetarian set
HasNonVegToken(recipe) ==
    \E line \in Req(recipe) : (Tokens(line) \cup {line}) \cap NON_VEG_INGREDIENTS # {}

\* the recipe passes ingredient matching: some available string matches a line
MatchesPantry(recipe) ==
    \E a \in Available(call.available_ingredients), r \in Req(recipe) : Matches(a, r)

\* the recipe is among the scored candidates of the current call
IsCandidate(recipe) == \E i \in DOMAIN results : results[i].recipe = recipe

\* the filter value is among the recipe's tags, letter case ignored on both sides
TagPresent(recipe, dietary) ==
    lower(dietary) \in {lower(d) : d \in SeqToSet(Get(recipe.dietary, <<>>))}

\* C15: with dietary "vegetarian" or "vegan", a recipe tagged with that diet
\* none of whose ingredient tokens is a member of the non-vegetarian set,
\* which passes the other filters and matches the pantry, is not excluded.
C15_NonVegByTokenOnly ==
    (IsMatch /\ call.dietary \in {Some(Chars("vegetarian")), Some(Chars("vegan"))}) =>
        \A k \in DOMAIN call.recipes :
            LET recipe == call.recipes[k]
            IN  (/\ TagPresent(recipe, Val(call.dietary))
                 /\ ~HasNonVegToken(recipe)
                 /\ PassesFilters(recipe, None, call.difficulty, call.max_time, call.cuisine)
                 /\ MatchesPantry(recipe)) =>
                    IsCandidate(recipe)

\* C16: when maxTime is set, 0 included, every returned recipe has a cook
\* time of at most maxTime.
C16_MaxTimeRespected ==
    (IsMatch /\ call.max_time # None) =>
        \A i \in DOMAIN ret : Get(ret[i].time_minutes, 0) <= Val(call.max_time)

\* C17: when a dietary filter is set, a recipe that matches the pantry and
\* passes the other filters is excluded exactly when the filter value is not
\* among its tags, letter case ignored on both sides.
C17_DietaryTagCaseInsensitive ==
    (IsMatch /\ TruthyStr(call.dietary)) =>
        \A k \in DOMAIN call.recipes :
            LET recipe == call.recipes[k]
            IN  (/\ ~(/\ call.dietary \in {Some(Chars("vegetarian")), Some(Chars("vegan"))}
                      /\ HasNonVeg(recipe))
                 /\ PassesFilters(recipe, None, call.difficulty, call.max_time, call.cuisine)
                 /\ MatchesPantry(recipe)) =>
                    (IsCandidate(recipe) <=> TagPresent(recipe, Val(call.dietary)))

\* C18: when a difficulty filter is set, a recipe that matches the pantry and
\* passes the other filters is excluded exactly when its difficulty differs
\* from the filter value, letter case ignored on both sides.
C18_DifficultyCaseInsensitive ==
    (IsMatch /\ TruthyStr(call.difficulty)) =>
        \A k \in DOMAIN call.recipes :
            LET recipe == call.recipes[k]
            IN  (/\ PassesFilters(recipe, call.dietary, None, call.max_time, call.cuisine)
                 /\ MatchesPantry(recipe)) =>
                    (IsCandidate(recipe) <=>
                        lower(Get(recipe.difficulty, <<>>)) = lower(Val(call.difficulty)))

\* the cuisine filter is set to a value other than "any"
CuisineSet == TruthyStr(call.cuisine) /\ lower(Val(call.cuisine)) # Chars("any")

\* C19: with a cuisine filter other than "any" every returned recipe has the
\* filter's cuisine, letter case ignored; with cuisine unset or "any" no
\* recipe is excluded because of its cuisine.
C19_CuisineCaseInsensitive ==
    IsMatch =>
        /\ CuisineSet =>
              \A i \in DOMAIN ret :
                  lower(Get(ret[i].cuisine, <<>>)) = lower(Val(call.cuisine))
        /\ ~CuisineSet =>
              \A k \in DOMAIN call.recipes :
                  \/ IsCandidate(call.recipes[k])
                  \/ ~MatchesPantry(call.recipes[k])
                  \/ ~PassesFilters(call.recipes[k], call.dietary, call.difficulty,
                                    call.max_time, None)

\* C19 witness: the filter "Italian" returns a recipe whose cuisine is written
\* "italian" and drops a matching recipe of another cuisine.
C19_Witness ==
    /\ IsMatch
    /\ call.cuisine = Some(Chars("Italian"))
    /\ \E i \in DOMAIN ret : ret[i].cuisine = Some(Chars("italian"))
    /\ \E k \in DOMAIN call.recipes :
          /\ MatchesPantry(call.recipes[k])
          /\ lower(Get(call.recipes[k].cuisine, <<>>)) # Chars("italian")
          /\ ~IsCandidate(call.recipes[k])

\* the precision of a two-decimal rendering and of the fraction tolerance
TwoDecimalTolerance == <<1, 100>>

\* C20: a line with a parseable quantity is rendered as the scaled quantity
\* followed by the remainder: as an integer when the scaled quantity is
\* integral, otherwise with two-decimal precision or as a fraction within
\* the tolerance.
C20_TwoDecimalRendering ==
    IsScale =>
        \A i \in DOMAIN call.ingredients :
            LET before == parse_number_prefix(call.ingredients[i])
                scaled_num == RMul(Val(before.num), CallRatio)
                after == parse_number_prefix(ret[i])
            IN  before.num # None =>
                    /\ after.num # None
                    /\ after.rest = before.rest
                    /\ RIsInt(scaled_num) =>
                          ret[i] = strip(NatToStr(scaled_num[1]) \o <<" ">> \o before.rest)
                    /\ ~RIsInt(scaled_num) =>
                          RLess(RAbsDiff(Val(after.num), scaled_num), TwoDecimalTolerance)

\* line begins with the characters of prefix
HasPrefix(line, prefix) == Len(line) >= Len(prefix) /\ SubSeq(line, 1, Len(prefix)) = prefix

\* the first character that is not whitespace, if any, is not a digit
NoLeadingDigit(line) == strip(line) = <<>> \/ ~IsDigit(strip(line)[1])

\* the two example forms of C21: "1 1/2 rest" parses as 3/2 and "1/2 rest" as
\* 1/2, each with the trimmed rest as remainder
ParsesByPriority(line) ==
    LET p == parse_number_prefix(line)
    IN  /\ HasPrefix(line, Chars("1 1/2 ")) =>
              p = [num |-> Some(<<3, 2>>), rest |-> strip(From(line, 7))]
        /\ HasPrefix(line, Chars("1/2 ")) =>
              p = [num |-> Some(<<1, 2>>), rest |-> strip(From(line, 5))]

\* C21 as stated: a mixed number is parsed before a fraction and a fraction
\* before a decimal or integer, and a line without a leading digit yields no
\* quantity and the line itself as remainder.
C21_ParsePriority_LineItself ==
    IsScale =>
        \A i \in DOMAIN call.ingredients :
            LET line == call.ingredients[i]
                p == parse_number_prefix(line)
            IN  /\ ParsesByPriority(line)
                /\ NoLeadingDigit(line) => (p.num = None /\ p.rest = line)

\* C21 amended: a mixed number is parsed before a fraction and a fraction
\* before a decimal or integer, and a line without a leading digit yields no
\* quantity and the line with surrounding whitespace removed as remainder.
C21_ParsePriority ==
    IsScale =>
        \A i \in DOMAIN call.ingredients :
            LET line == call.ingredients[i]
                p == parse_number_prefix(line)
            IN  /\ ParsesByPriority(line)
                /\ NoLeadingDigit(line) => (p.num = None /\ p.rest = strip(line))

\* C21 witness: "1 1/2 cups sugar" and "1/2 tsp salt" doubled give 3 and 1,
\* the quantities 3/2 and 1/2 times two, before the remainders.
C21_Witness ==
    /\ IsScale
    /\ call.origin = None
    /\ call.ingredients = Lines(<<"1 1/2 cups sugar", "1/2 tsp salt">>)
    /\ call.original_servings = 2
    /\ call.new_servings = 4
    /\ ret = Lines(<<"3 cups sugar", "1 tsp salt">>)

LikedOfCall ==
    {r \in SeqToSet(call.recipes) :
        r.id \in DOMAIN call.user_ratings /\ call.user_ratings[r.id] >= 4}

\* cuisine, difficulty and tags of a recipe, an absent field read as its default
CuisineOf(r) == Get(r.cuisine, Chars("unknown"))
DifficultyOf(r) == Get(r.difficulty, Chars("medium"))
TagsOf(r) == Get(r.dietary, <<>>)

\* 3 per liked recipe of the same cuisine, 2 per liked recipe carrying a tag
\* of r, summed over the tags of r, and 1 per liked recipe of the same
\* difficulty
WeightedScore(r) ==
    3 * Cardinality({l \in LikedOfCall : CuisineOf(l) = CuisineOf(r)})
    + 2 * SumSeq([i \in DOMAIN TagsOf(r) |->
                    Cardinality({l \in LikedOfCall : TagsOf(r)[i] \in SeqToSet(TagsOf(l))})])
    + Cardinality({l \in LikedOfCall : DifficultyOf(l) = DifficultyOf(r)})

\* the recipes of the call that are not liked and score above zero
Recommendable == {r \in SeqToSet(call.recipes) \ LikedOfCall : WeightedScore(r) > 0}

\* C23: with at least one rating of 4 or more, every scored recipe carries
\* the weighted score 3*cuisine + 2*tags + 1*difficulty, exactly the
\* non-liked recipes scoring above zero are kept, they are ordered by
\* descending score with equal scores in input order, and the result is the
\* first topN of them.
C23_WeightedScoreRanking ==
    (IsRecommend /\ ~NoHighRating) =>
        /\ {results[k][2] : k \in DOMAIN results} = Recommendable
        /\ Len(results) = Cardinality(Recommendable)
        /\ \A k \in DOMAIN results : results[k][1] = WeightedScore(results[k][2])
        /\ \A j, k \in DOMAIN results :
              j < k =>
                  \/ results[j][1] > results[k][1]
                  \/ /\ results[j][1] = results[k][1]
                     /\ InputIndex(results[j][2]) < InputIndex(results[k][2])
        /\ Len(ret) <= Len(results)
        /\ \A i \in DOMAIN ret : ret[i] = results[i][2]
        /\ call.top_n >= 0 => Len(ret) = Min({call.top_n, Len(results)})

\* C23 witness: with R2 liked, R5 scores 3 + 2*2 + 1 = 8 and R1 scores
\* 2 + 1 = 3, so R5 is ranked before R1 although it comes later in the
\* list, and topN = 1 keeps R5 only.
C23_Witness ==
    /\ IsRecommend
    /\ call.recipes = <<R2, R1, R5>>
    /\ call.user_ratings = [id \in {"r2"} |-> 4]
    /\ call.top_n = 1
    /\ results = <<<<8, R5>>, <<3, R1>>>>
    /\ ret = <<R5>>

\* with R1 liked, R5 and R2 both score 2 + 1 = 3 and keep their input order
C23_TieWitness ==
    /\ IsRecommend
    /\ call.recipes = <<R5, R1, R2>>
    /\ call.user_ratings = [id \in {"r1"} |-> 4]
    /\ call.top_n = 2
    /\ results = <<<<3, R5>>, <<3, R2>>>>
    /\ ret = <<R5, R2>>

\* C24: every entry of results, the candidates left after the filters and
\* the empty-match test, has a score that is a fraction with positive
\* denominator and non-negative numerator, a matched count of at least 1 and
\* at most the number of distinct required lines, and a ratio, matched count
\* over required count, above 0 and at most 1.
C24_CandidateScoresInRange ==
    IsMatch =>
        \A k \in DOMAIN results :
            LET e == results[k]
            IN  /\ e.score[2] > 0
                /\ e.score[1] >= 0
                /\ 1 <= e.match_count
                /\ e.match_count <= e.total_required
                /\ e.total_required <= Cardinality(SeqToSet(e.recipe.ingredients))
                /\ e.match_ratio[2] > 0
                /\ e.match_ratio[1] * e.total_required = e.match_count * e.match_ratio[2]
                /\ 0 < e.match_ratio[1]
                /\ e.match_ratio[1] <= e.match_ratio[2]

\* C24 witness: with only "egg" at hand R1 matches one of its three lines
\* and is scored with ratio 1/3, while R3 matches nothing and is left out.
C24_Witness ==
    /\ IsMatch
    /\ call.available_ingredients = Lines(<<"egg">>)
    /\ call.recipes = <<R3, R1>>
    /\ NoFilters
    /\ Len(results) = 1
    /\ results[1].recipe = R1
    /\ results[1].match_count = 1
    /\ results[1].total_required = 3
    /\ results[1].match_ratio = <<1, 3>>
    /\ ret = <<R1>>

\* every stored rating is in 0..5 and no recipe id has two rows
RatingsWellFormed ==
    /\ \A row \in ratings : row[2] \in 0..5
    /\ \A a, b \in ratings : a[1] = b[1] => a = b

\* a set_rating call with a rating outside 0..5 returns False; one that
\* returns False leaves the table as it was; one that returns True leaves
\* its rating as the only row of its recipe id and the rows of the other ids
\* as they were; no other step changes the table
SetRatingStep ==
    IF call'.op = "set_rating"
    THEN /\ ret' \in BOOLEAN
         /\ call'.rating \notin 0..5 => ret' = FALSE
         /\ ret' = FALSE => ratings' = ratings
         /\ ret' = TRUE =>
               /\ {row \in ratings' : row[1] = call'.recipe_id}
                      = {<<call'.recipe_id, call'.rating>>}
               /\ {row \in ratings' : row[1] # call'.recipe_id}
                      = {row \in ratings : row[1] # call'.recipe_id}
    ELSE ratings' = ratings

\* C25: from the empty table and through any sequence of set_rating calls,
\* every stored rating is in 0..5, each recipe id has at most one stored
\* rating, the one of the last accepted call for that id, and a call with a
\* rating outside 0..5 returns False and leaves the table unchanged.
C25_StoredRatings == []RatingsWellFormed /\ [][SetRatingStep]_vars

\* C25 witness: set_rating("r1", 3) was accepted while the table held a row
\* of another id; r1 has the single row 3.
C25_Witness ==
    /\ call.op = "set_rating"
    /\ call.recipe_id = "r1"
    /\ call.rating = 3
    /\ ret = TRUE
    /\ ratings = {<<"r1", 3>>, <<"r2", 5>>}

====
